---- MODULE Spec2Model ----
(***************************************************************************)
(* A model of the concurrency primitives of nexxT/core/Utils.py:           *)
(*   - Barrier          (QMutex + QWaitCondition rendezvous),              *)
(*   - MethodInvoker    (cross-thread invocation through Qt connections),  *)
(*   - waitForSignal    (pump-and-poll wait for a queued signal).          *)
(* Qt itself (QMutex, QWaitCondition, the per-thread posted-event queue,   *)
(* zero-delay timers, queued connections) is modelled by its documented    *)
(* behaviour; the three primitives are translated statement by statement.  *)
(***************************************************************************)
EXTENDS Integers, Sequences, FiniteSets, TLC

\* ------------------------------------------------------------------------
\* Bounds
\* ------------------------------------------------------------------------
\* largest count a Barrier is constructed with (and number of worker threads)
MaxCount == 3
\* number of times each worker thread calls Barrier.wait()
MaxRounds == 2

\* number of MethodInvoker objects that are constructed
MaxInvokers == 2

\* number of times the signal is emitted
MaxEmit == 3
\* largest timeout waitForSignal is called with
MaxTimeout == 2
\* largest time that passes between the entry of waitForSignal and t0
MaxDelay == 1

\* Python's None (no thread, no callback, no timeout, no signal arguments yet)
None == 0

BThreads == 1..MaxCount

\* the QThreads; each one runs an event loop (QThread.exec_)
QThreads == {1, 2}

VARIABLES
    \* ---- Barrier ----
    origCount,   \* Barrier.origCount
    count,       \* Barrier.count
    mutex,       \* Barrier.mutex: the thread holding it, or None
    condition,   \* Barrier.condition: the set of threads blocked in condition.wait
    bthreads,    \* the worker threads that use the barrier (threadWork)
    bpc,         \* position of each worker thread inside Barrier.wait
    rounds       \* number of wait() calls each worker thread has returned from

VARIABLES
    \* ---- Qt event loops ----
    queue,       \* per thread: the posted events (QCoreApplication.postEvent), in order
    timers,      \* per thread: the pending zero-delay single-shot timers, in order
    \* ---- MethodInvoker ----
    invoker,     \* the MethodInvoker objects constructed so far, in order of construction
    postOrder,   \* history: invokers in the order signal.emit() posted them
    execOrder    \* history: invokers in the order callbackWrapper ran

VARIABLES
    \* ---- waitForSignal ----
    wthread,     \* the thread that calls waitForSignal
    wpc,         \* position inside waitForSignal
    callback,    \* the callback argument
    timeout,     \* the timeout argument
    connected,   \* whether _slot is connected to the signal
    received,    \* _received
    sigArgs,     \* _sigArgs
    t0,          \* t0
    now,         \* time.perf_counter()
    pumpLeft,    \* posted events processEvents() still has to deliver
    result,      \* the value waitForSignal returned
    whist        \* history of the call: entry time, disconnects, slot calls,
                 \* emissions, first accepted arguments

bvars == <<origCount, count, mutex, condition, bthreads, bpc, rounds>>
qvars == <<queue, timers>>
ivars == <<invoker, postOrder, execOrder>>
wvars == <<wthread, wpc, callback, timeout, connected, received, sigArgs, t0, now,
           pumpLeft, result, whist>>

vars == <<bvars, qvars, ivars, wvars>>

\* what the Barrier does not touch
nonBarrier == <<qvars, ivars, wvars>>

\* ------------------------------------------------------------------------
\* The parts of the state a specification does not use
\* ------------------------------------------------------------------------

\* no Barrier is in use
NoBarrier ==
    /\ origCount = 1
    /\ count = 1
    /\ mutex = None
    /\ condition = {}
    /\ bthreads = {}
    /\ bpc = [t \in BThreads |-> "idle"]
    /\ rounds = [t \in BThreads |-> 0]

\* no MethodInvoker is constructed and nothing is posted
NoInvoker ==
    /\ queue = [t \in QThreads |-> <<>>]
    /\ timers = [t \in QThreads |-> <<>>]
    /\ invoker = <<>>
    /\ postOrder = <<>>
    /\ execOrder = <<>>

\* timeout=None of waitForSignal
NoTimeout == -1

\* callback=None of waitForSignal
NoCallback == [given |-> FALSE, accept |-> {}]

\* waitForSignal has not been called yet
WaitInit ==
    /\ wthread = 1
    /\ wpc = "idle"
    /\ callback = NoCallback
    /\ timeout = NoTimeout
    /\ connected = FALSE
    /\ received = FALSE
    /\ sigArgs = None
    /\ t0 = 0
    /\ now = 0
    /\ pumpLeft = 0
    /\ result = None
    /\ whist = [entry |-> 0, disconnects |-> 0, slotCalls |-> 0, accepted |-> None,
                emittedInCall |-> 0, emittedAfter |-> 0]

\* waitForSignal is not called
NoWait == WaitInit

\* ------------------------------------------------------------------------
\* Barrier
\* ------------------------------------------------------------------------

\* Barrier.__init__(count); _smokeTestBarrier starts exactly n threads for
\* Barrier(n)
BarrierInit ==
    /\ origCount \in 1..MaxCount
    /\ count = origCount
    /\ mutex = None
    /\ condition = {}
    /\ bthreads = 1..origCount
    /\ bpc = [t \in BThreads |-> "idle"]
    /\ rounds = [t \in BThreads |-> 0]

\* threadWork: a worker thread calls barrier.wait()
CallWait(t) ==
    /\ t \in bthreads
    /\ bpc[t] = "idle"
    /\ rounds[t] < MaxRounds
    /\ bpc' = [bpc EXCEPT ![t] = "lock"]
    /\ UNCHANGED <<origCount, count, mutex, condition, bthreads, rounds>>
    /\ UNCHANGED nonBarrier

\* self.mutex.lock()
MutexLock(t) ==
    /\ bpc[t] = "lock"
    /\ mutex = None
    /\ mutex' = t
    /\ bpc' = [bpc EXCEPT ![t] = "dec"]
    /\ UNCHANGED <<origCount, count, condition, bthreads, rounds>>
    /\ UNCHANGED nonBarrier

\* self.count -= 1
Decrement(t) ==
    /\ bpc[t] = "dec"
    /\ count' = count - 1
    /\ bpc' = [bpc EXCEPT ![t] = "test"]
    /\ UNCHANGED <<origCount, mutex, condition, bthreads, rounds>>
    /\ UNCHANGED nonBarrier

\* a plausible slip of the test: a counter that reached 0 still waits
MustWaitInclusive(c) == c >= 0

\* a plausible slip of the test: the thread before the last already releases
MustWaitOffByOne(c) == c > 1

\* if self.count > 0:
MustWait(c) == c > 0

TestCount(t) ==
    /\ bpc[t] = "test"
    /\ bpc' = [bpc EXCEPT ![t] = IF MustWait(count) THEN "condwait" ELSE "reset"]
    /\ UNCHANGED <<origCount, count, mutex, condition, bthreads, rounds>>
    /\ UNCHANGED nonBarrier

\* self.condition.wait(self.mutex), first half: atomically release the mutex
\* and block on the wait condition
ConditionWait(t) ==
    /\ bpc[t] = "condwait"
    /\ mutex = t
    /\ mutex' = None
    /\ condition' = condition \cup {t}
    /\ bpc' = [bpc EXCEPT ![t] = "blocked"]
    /\ UNCHANGED <<origCount, count, bthreads, rounds>>
    /\ UNCHANGED nonBarrier

\* self.condition.wait(self.mutex), second half: a woken thread locks the
\* mutex again before wait returns
ConditionRelock(t) ==
    /\ bpc[t] = "woken"
    /\ mutex = None
    /\ mutex' = t
    /\ bpc' = [bpc EXCEPT ![t] = "unlock"]
    /\ UNCHANGED <<origCount, count, condition, bthreads, rounds>>
    /\ UNCHANGED nonBarrier

\* a plausible slip of the reset: the counter is left at 0
ResetValueMissing(oc, c) == c

\* self.count = self.origCount
ResetValue(oc, c) == oc

ResetCount(t) ==
    /\ bpc[t] = "reset"
    /\ count' = ResetValue(origCount, count)
    /\ bpc' = [bpc EXCEPT ![t] = "wakeall"]
    /\ UNCHANGED <<origCount, mutex, condition, bthreads, rounds>>
    /\ UNCHANGED nonBarrier

\* a plausible slip of the wake up: wakeOne() instead of wakeAll()
WokenByWakeOne(ws) == IF ws = {} THEN {} ELSE {CHOOSE w \in ws : TRUE}

\* the threads QWaitCondition.wakeAll() wakes: every thread waiting on it
WokenByWakeAll(ws) == ws

\* self.condition.wakeAll()
WakeAll(t) ==
    /\ bpc[t] = "wakeall"
    /\ LET woken == WokenByWakeAll(condition) IN
        /\ condition' = condition \ woken
        /\ bpc' = [u \in BThreads |->
                     IF u \in woken THEN "woken"
                     ELSE IF u = t THEN "unlock" ELSE bpc[u]]
    /\ UNCHANGED <<origCount, count, mutex, bthreads, rounds>>
    /\ UNCHANGED nonBarrier

\* self.mutex.unlock(), and wait() returns
MutexUnlock(t) ==
    /\ bpc[t] = "unlock"
    /\ mutex = t
    /\ mutex' = None
    /\ bpc' = [bpc EXCEPT ![t] = "idle"]
    /\ rounds' = [rounds EXCEPT ![t] = @ + 1]
    /\ UNCHANGED <<origCount, count, condition, bthreads>>
    /\ UNCHANGED nonBarrier

\* one step of worker thread t
BarrierStep(t) ==
    \/ CallWait(t)
    \/ MutexLock(t)
    \/ Decrement(t)
    \/ TestCount(t)
    \/ ConditionWait(t)
    \/ ConditionRelock(t)
    \/ ResetCount(t)
    \/ WakeAll(t)
    \/ MutexUnlock(t)

BarrierNext ==
    \/ \E t \in BThreads : CallWait(t)
    \/ \E t \in BThreads : MutexLock(t)
    \/ \E t \in BThreads : Decrement(t)
    \/ \E t \in BThreads : TestCount(t)
    \/ \E t \in BThreads : ConditionWait(t)
    \/ \E t \in BThreads : ConditionRelock(t)
    \/ \E t \in BThreads : ResetCount(t)
    \/ \E t \in BThreads : WakeAll(t)
    \/ \E t \in BThreads : MutexUnlock(t)

InitBarrier == BarrierInit /\ NoInvoker /\ NoWait

SpecBarrier == InitBarrier /\ [][BarrierNext]_vars

\* every started thread is scheduled again and again (QThread.start), and a
\* thread waiting for a free QMutex gets it
SpecBarrierFair == SpecBarrier /\ \A t \in BThreads : WF_vars(BarrierStep(t))

\* number of wait() calls in which thread t has decremented the counter
Arrived(t) == rounds[t] + (IF bpc[t] \in {"idle", "lock", "dec"} THEN 0 ELSE 1)

\* ------------------------------------------------------------------------
\* Properties of the Barrier
\* ------------------------------------------------------------------------

\* C1: with N threads for a Barrier of count N, no thread has returned from
\* its first wait() before every one of the N threads has called wait(), that
\* is has taken the mutex and decremented the counter.
C1_NoReturnBeforeAllArrived ==
    \A t \in bthreads :
        rounds[t] >= 1 => \A u \in bthreads : Arrived(u) >= 1

\* a thread has returned from the first cycle of a barrier of the largest
\* count while another released thread is still inside wait()
C1_Witness ==
    /\ origCount = MaxCount
    /\ \E t \in bthreads : rounds[t] = 1 /\ bpc[t] = "idle"
    /\ \E u \in bthreads : rounds[u] = 0 /\ bpc[u] = "woken"

\* C2: under fair scheduling every one of the N first wait() calls
\* eventually returns.
C2_AllEventuallyReturn ==
    <>(\A t \in bthreads : rounds[t] >= 1)

\* all threads of a barrier of the largest count have returned from their
\* first wait(), the last of them after having been blocked
C2_Witness ==
    /\ origCount = MaxCount
    /\ \A t \in bthreads : rounds[t] = 1 /\ bpc[t] = "idle"

\* C3: the barrier is reusable: in every cycle no thread returns from its
\* k-th wait() before all N threads have arrived k times, between two cycles
\* the counter equals the construction count again, and every thread
\* eventually returns from every one of its wait() calls.
C3_Reusable ==
    /\ [](\A t, u \in bthreads : rounds[t] <= Arrived(u))
    /\ []((\A t, u \in bthreads : Arrived(t) = rounds[u]) => count = origCount)
    /\ <>(\A t \in bthreads : rounds[t] = MaxRounds)

\* a thread has returned from its second wait() after having been blocked in
\* it, on a barrier of the largest count
C3_Witness ==
    /\ origCount = MaxCount
    /\ \E t \in bthreads : rounds[t] = 2
    /\ \E u \in bthreads : rounds[u] = 1 /\ bpc[u] = "woken"

\* ------------------------------------------------------------------------
\* Barrier with any construction count and any number of calling threads
\* ------------------------------------------------------------------------

\* Barrier.__init__(count) stores the count it is given, whatever its sign,
\* and wait() can be called by any number of threads
BarrierInitAny ==
    /\ origCount \in -1..MaxCount
    /\ count = origCount
    /\ mutex = None
    /\ condition = {}
    /\ bthreads \in {1..n : n \in 1..MaxCount}
    /\ bpc = [t \in BThreads |-> "idle"]
    /\ rounds = [t \in BThreads |-> 0]

InitBarrierAny == BarrierInitAny /\ NoInvoker /\ NoWait

SpecBarrierAny == InitBarrierAny /\ [][BarrierNext]_vars

\* C11: a Barrier whose construction count is 0 or negative is rejected at
\* construction, so no wait() call ever returns on such a barrier, and in
\* particular none returns without any other thread having arrived.
C11_NonPositiveCountRejected ==
    origCount <= 0 => \A t \in bthreads : rounds[t] = 0

\* C12: on a Barrier of count 1 no wait() call ever blocks on the wait
\* condition, and whenever a call has returned (the mutex is unlocked) the
\* counter is 1 again, for any number of calls by any number of threads.
C12_CountOneNeverBlocks ==
    origCount = 1 =>
        /\ \A t \in bthreads : bpc[t] \notin {"condwait", "blocked", "woken"}
        /\ condition = {}
        /\ mutex = None => count = 1

\* on a Barrier of count 1 a thread has returned from MaxRounds successive
\* wait() calls and another thread from one
C12_Witness ==
    /\ origCount = 1
    /\ mutex = None
    /\ \E t \in bthreads : rounds[t] = MaxRounds /\ bpc[t] = "idle"
    /\ \E u \in bthreads : rounds[u] = 1

\* C16: on a Barrier of count N >= 1 the counter is between 0 and N whenever
\* the mutex is not held, and the construction count is never modified, for
\* any number of wait() calls by any number of threads.
C16_CounterInRange ==
    /\ []((origCount >= 1 /\ mutex = None) =>
            (0 <= count /\ count <= origCount))
    /\ [][origCount' = origCount]_vars

\* more threads than the count use the barrier: one has returned from its
\* second wait() while another one is blocked, and the mutex is free
C16_Witness ==
    /\ origCount >= 2
    /\ Cardinality(bthreads) > origCount
    /\ mutex = None
    /\ \E t \in bthreads : rounds[t] = 2
    /\ \E u \in bthreads : bpc[u] = "blocked"

\* ------------------------------------------------------------------------
\* Barrier with spurious wakeups of the wait condition
\* ------------------------------------------------------------------------

\* self.condition.wait(self.mutex) returns although no wakeAll() was issued:
\* the thread leaves the wait condition and goes on to lock the mutex again
SpuriousWakeup(t) ==
    /\ bpc[t] = "blocked"
    /\ t \in condition
    /\ condition' = condition \ {t}
    /\ bpc' = [bpc EXCEPT ![t] = "woken"]
    /\ UNCHANGED <<origCount, count, mutex, bthreads, rounds>>
    /\ UNCHANGED nonBarrier

BarrierSpuriousNext ==
    \/ BarrierNext
    \/ \E t \in BThreads : SpuriousWakeup(t)

SpecBarrierSpurious == InitBarrier /\ [][BarrierSpuriousNext]_vars

\* C14: a thread whose condition wait has ended, spuriously or not, is on
\* its way out of wait() only if all N threads have arrived in its cycle,
\* that is only if the counter of its cycle has reached 0.
C14_SpuriousWakeupKeepsWaiting ==
    \A t \in bthreads :
        bpc[t] = "woken" => \A u \in bthreads : Arrived(u) > rounds[t]

\* ------------------------------------------------------------------------
\* Cycles of the Barrier
\* ------------------------------------------------------------------------

\* C15: cycles do not mix. A blocked thread is released only by the
\* wakeAll() of its own cycle, that is in a step before which all N threads
\* have arrived in that cycle, so a thread that re-entered wait() while slower
\* threads of the previous cycle are still inside stays blocked until the N
\* arrivals of the next cycle; that wakeAll() releases every waiter, and every
\* released thread eventually leaves wait().
C15_CyclesDoNotMix ==
    /\ [][\A u \in bthreads :
            (bpc[u] = "blocked" /\ bpc'[u] # "blocked") =>
                /\ \A v \in bthreads : Arrived(v) = rounds[u] + 1
                /\ \A w \in condition : bpc'[w] = "woken"
                /\ condition' = {}]_vars
    /\ \A t \in BThreads : (bpc[t] = "woken") ~> (bpc[t] = "idle")

\* a thread released from the first cycle has re-entered wait() and is
\* blocked in the second cycle while a slower thread of the first cycle has
\* not yet locked the mutex again
C15_Witness ==
    /\ origCount = MaxCount
    /\ \E t \in bthreads : rounds[t] = 0 /\ bpc[t] = "woken"
    /\ \E u \in bthreads : rounds[u] = 1 /\ bpc[u] = "blocked"

\* ------------------------------------------------------------------------
\* Qt event loops and MethodInvoker
\* ------------------------------------------------------------------------

\* the connectiontype argument: Qt.DirectConnection, Qt.QueuedConnection,
\* Qt.BlockingQueuedConnection and MethodInvoker.IDLE_TASK
ConnectionTypes == {"Direct", "Queued", "BlockingQueued", "IDLE_TASK"}

\* the callback argument: a dict(object=, method=, thread=) whose thread is
\* callback["thread"] or else obj.thread(), a method bound to a QObject, or any
\* other callable
Callbacks ==
    [kind : {"dict", "method"}, thread : QThreads]
        \cup {[kind |-> "bare", thread |-> None]}

\* the values bound as *args
ArgValues == {"a", "b"}

\* the thread found for the callback (thread = ... in __init__)
ResolveThread(cb) == IF cb.kind = "bare" THEN None ELSE cb.thread

\* what the event loops and the invokers do not touch
nonInvoker == <<bvars, wvars>>

InvokerIds == 1..Len(invoker)

\* a plausible slip: a blocked constructor keeps its thread's event loop going
InConstructorPumps(t) ==
    \E i \in InvokerIds : invoker[i].caller = t /\ invoker[i].pc = "dispatched"

\* thread t is inside MethodInvoker.__init__ (its event loop does not run)
InConstructor(t) ==
    \E i \in InvokerIds : invoker[i].caller = t /\ invoker[i].pc # "returned"

\* a posted QMetaCallEvent for callbackWrapper of invoker i
MetaCall(i) == [kind |-> "metacall", inv |-> i, args |-> None]

\* a plausible slip of the event queue: the newest event is delivered first
PostEventFront(q, e) == <<e>> \o q

\* QCoreApplication.postEvent: events of equal priority are kept in the order
\* they were posted
PostEvent(q, e) == Append(q, e)

\* a plausible slip: the arguments are kept once for the class, not per object
BoundArgsShared(invs, i) == invs[Len(invs)].args

\* self.args of invoker i
BoundArgs(invs, i) == invs[i].args

\* callbackWrapper of invoker i runs on thread t: self.callback(*self.args)
CallbackWrapper(invs, i, t) ==
    [invs EXCEPT ![i].calls = Append(@, [thread |-> t, args |-> BoundArgs(invs, i)])]

\* a QMetaCallEvent of a blocking queued connection releases the semaphore
\* the emitter waits on once the slot has run
ReleaseSemaphore(invs, i) == [invs EXCEPT ![i].done = TRUE]

\* a plausible slip: without an owner the object is moved to the main thread
NewInvokerOnMainThread(t, cb, ct, a) ==
    [caller |-> t, ctype |-> ct, args |-> a,
     thread |-> IF ResolveThread(cb) # None THEN ResolveThread(cb) ELSE 1,
     warned |-> (ResolveThread(cb) = None /\ ct # "Direct"),
     pc |-> "dispatched", done |-> FALSE, calls |-> <<>>]

\* MethodInvoker.__init__ up to moveToThread, called on thread t: the new
\* object with self.args, the thread it lives in (the thread found for the
\* callback, or else still the constructing thread) and whether the old style
\* API warning was logged
NewInvoker(t, cb, ct, a) ==
    [caller |-> t, ctype |-> ct, args |-> a,
     thread |-> IF ResolveThread(cb) # None THEN ResolveThread(cb) ELSE t,
     warned |-> (ResolveThread(cb) = None /\ ct # "Direct"),
     pc |-> "dispatched", done |-> FALSE, calls |-> <<>>]

\* thread t may construct one more MethodInvoker
MayConstruct(t) ==
    /\ Len(invoker) < MaxInvokers
    /\ ~InConstructor(t)

\* __init__ with IDLE_TASK: QTimer.singleShot(0, self.callbackWrapper).
\* PySide2's singleShot(int, callable) creates a single-shot QTimer in the
\* thread that calls it, connects its timeout to the callable and starts it:
\* the timer is a timer of the calling thread's event loop, whatever thread
\* the invoker was moved to
ConstructIdle(t, cb, a) ==
    /\ MayConstruct(t)
    /\ invoker' = Append(invoker, NewInvoker(t, cb, "IDLE_TASK", a))
    /\ timers' = [timers EXCEPT ![t] = Append(@, Len(invoker) + 1)]
    /\ UNCHANGED <<queue, postOrder, execOrder>>
    /\ UNCHANGED nonInvoker

\* a plausible slip: the slot of a direct connection runs in the thread the
\* receiver lives in
DirectSlotThreadOfReceiver(t, new) == new.thread

\* the thread a slot connected with Qt.DirectConnection runs in when thread t
\* emits: the emitting thread, whatever thread the receiver lives in
DirectSlotThread(t, new) == t

\* __init__ with Qt.DirectConnection: connect and emit, the slot runs in the
\* emitting thread inside emit
ConstructDirect(t, cb, a) ==
    /\ MayConstruct(t)
    /\ LET i == Len(invoker) + 1
           new == NewInvoker(t, cb, "Direct", a)
       IN
        /\ invoker' = CallbackWrapper(Append(invoker, new), i, DirectSlotThread(t, new))
        /\ execOrder' = Append(execOrder, i)
    /\ UNCHANGED <<queue, timers, postOrder>>
    /\ UNCHANGED nonInvoker

\* a plausible slip: the blocking connection type is treated as a queued one
EmitBlocksNever(ct) == FALSE

\* emit blocks until the slot has run for Qt.BlockingQueuedConnection
EmitBlocks(ct) == ct = "BlockingQueued"

\* __init__ with Qt.QueuedConnection or Qt.BlockingQueuedConnection: connect
\* and emit, the call is posted to the thread the invoker lives in
ConstructQueued(t, cb, ct, a) ==
    /\ MayConstruct(t)
    /\ ct \in {"Queued", "BlockingQueued"}
    /\ LET i == Len(invoker) + 1
           new == NewInvoker(t, cb, ct, a)
       IN
        /\ invoker' = Append(invoker,
              [new EXCEPT !.pc = IF EmitBlocks(ct) THEN "blocked" ELSE "dispatched"])
        /\ queue' = [queue EXCEPT ![new.thread] = PostEvent(@, MetaCall(i))]
        /\ postOrder' = Append(postOrder, i)
    /\ UNCHANGED <<timers, execOrder>>
    /\ UNCHANGED nonInvoker

\* MethodInvoker.__init__ returns; a blocking emit returns once the slot ran
Return(i) ==
    /\ i \in InvokerIds
    /\ \/ invoker[i].pc = "dispatched"
       \/ invoker[i].pc = "blocked" /\ invoker[i].done
    /\ invoker' = [invoker EXCEPT ![i].pc = "returned"]
    /\ UNCHANGED <<queue, timers, postOrder, execOrder>>
    /\ UNCHANGED nonInvoker

\* the event loop of thread t delivers its oldest posted event
DeliverPosted(t) ==
    /\ ~InConstructor(t)
    /\ queue[t] # <<>>
    /\ Head(queue[t]).kind = "metacall"
    /\ LET i == Head(queue[t]).inv IN
        /\ invoker' = ReleaseSemaphore(CallbackWrapper(invoker, i, t), i)
        /\ execOrder' = Append(execOrder, i)
    /\ queue' = [queue EXCEPT ![t] = Tail(@)]
    /\ UNCHANGED <<timers, postOrder>>
    /\ UNCHANGED nonInvoker

\* the event loop of thread t fires its oldest zero-delay timer: timeout is
\* connected to callbackWrapper with an auto connection, which calls the slot
\* directly if the invoker lives in t and posts the call to its thread if not
FireTimer(t) ==
    /\ ~InConstructor(t)
    /\ timers[t] # <<>>
    /\ LET i == Head(timers[t]) IN
        IF invoker[i].thread = t
        THEN /\ invoker' = CallbackWrapper(invoker, i, t)
             /\ execOrder' = Append(execOrder, i)
             /\ queue' = queue
        ELSE /\ queue' = [queue EXCEPT ![invoker[i].thread] = PostEvent(@, MetaCall(i))]
             /\ UNCHANGED <<invoker, execOrder>>
    /\ timers' = [timers EXCEPT ![t] = Tail(@)]
    /\ UNCHANGED <<postOrder>>
    /\ UNCHANGED nonInvoker

InvokerInit ==
    /\ queue = [t \in QThreads |-> <<>>]
    /\ timers = [t \in QThreads |-> <<>>]
    /\ invoker = <<>>
    /\ postOrder = <<>>
    /\ execOrder = <<>>

InvokerNext ==
    \/ \E t \in QThreads, cb \in Callbacks, a \in ArgValues : ConstructIdle(t, cb, a)
    \/ \E t \in QThreads, cb \in Callbacks, a \in ArgValues : ConstructDirect(t, cb, a)
    \/ \E t \in QThreads, cb \in Callbacks, ct \in ConnectionTypes, a \in ArgValues :
          ConstructQueued(t, cb, ct, a)
    \/ \E i \in 1..MaxInvokers : Return(i)
    \/ \E t \in QThreads : DeliverPosted(t)
    \/ \E t \in QThreads : FireTimer(t)

InitInvoker == InvokerInit /\ NoBarrier /\ NoWait

SpecInvoker == InitInvoker /\ [][InvokerNext]_vars

\* every event loop keeps running while its thread is not inside a
\* constructor, and a constructor that may return does return
SpecInvokerFair ==
    /\ SpecInvoker
    /\ \A t \in QThreads : WF_vars(DeliverPosted(t)) /\ WF_vars(FireTimer(t))
    /\ \A i \in 1..MaxInvokers : WF_vars(Return(i))

\* ------------------------------------------------------------------------
\* Properties of MethodInvoker
\* ------------------------------------------------------------------------

\* number of times invoker i is pending in a posted-event queue
PostedCount(i) ==
    Cardinality(UNION {{<<t, k>> : k \in {n \in DOMAIN queue[t] :
                          queue[t][n].kind = "metacall" /\ queue[t][n].inv = i}} :
                       t \in QThreads})

\* number of times invoker i is pending as a zero-delay timer
TimerCount(i) ==
    Cardinality(UNION {{<<t, k>> : k \in {n \in DOMAIN timers[t] : timers[t][n] = i}} :
                       t \in QThreads})

\* invoker i has run, and x ran before y
HasRun(i) == \E k \in DOMAIN execOrder : execOrder[k] = i
RanBefore(x, y) ==
    \E j, k \in DOMAIN execOrder : j < k /\ execOrder[j] = x /\ execOrder[k] = y

\* the event loop of thread t has nothing left to do
LoopDrained(t) ==
    /\ ~InConstructor(t)
    /\ queue[t] = <<>>
    /\ timers[t] = <<>>

\* C4: once the constructor of a BlockingQueued invoker whose callback lives
\* in another thread B has returned on thread A, the callback has run exactly
\* once, and it ran on B.
C4_BlockingQueuedRanOnTarget ==
    \A i \in InvokerIds :
        (/\ invoker[i].ctype = "BlockingQueued"
         /\ invoker[i].thread # invoker[i].caller
         /\ invoker[i].pc = "returned")
        => /\ Len(invoker[i].calls) = 1
           /\ invoker[i].calls[1].thread = invoker[i].thread
           /\ invoker[i].calls[1].thread # invoker[i].caller

\* the constructor of a BlockingQueued invoker for another thread has returned
C4_Witness ==
    \E i \in InvokerIds :
        /\ invoker[i].ctype = "BlockingQueued"
        /\ invoker[i].thread # invoker[i].caller
        /\ invoker[i].pc = "returned"

\* C8: an IDLE_TASK invoker never blocks its constructor, its callback has not
\* run when the constructor returns, runs at most once, and has run exactly
\* once whenever, after the constructor returned, the event loop of the target
\* thread has drained its pending work.
C8_IdleRunsBeforeTargetDrained ==
    \A i \in InvokerIds :
        invoker[i].ctype = "IDLE_TASK" =>
            /\ invoker[i].pc # "blocked"
            /\ invoker[i].pc # "returned" => invoker[i].calls = <<>>
            /\ Len(invoker[i].calls) <= 1
            /\ (invoker[i].pc = "returned" /\ LoopDrained(invoker[i].thread))
                  => Len(invoker[i].calls) = 1

\* C9: callbacks posted with Queued or BlockingQueued to the same thread run
\* in the order in which they were posted.
C9_FifoPerTarget ==
    \A p, q \in DOMAIN postOrder :
        (/\ p < q
         /\ invoker[postOrder[p]].thread = invoker[postOrder[q]].thread
         /\ HasRun(postOrder[q]))
        => RanBefore(postOrder[p], postOrder[q])

\* two invokers constructed by different threads were posted to the same
\* thread, and both have run
C9_Witness ==
    \E p, q \in DOMAIN postOrder :
        /\ p < q
        /\ invoker[postOrder[p]].thread = invoker[postOrder[q]].thread
        /\ invoker[postOrder[p]].caller # invoker[postOrder[q]].caller
        /\ HasRun(postOrder[p])
        /\ HasRun(postOrder[q])

\* some threads are blocked for ever: each of them is inside a
\* BlockingQueued constructor whose callback has to run on one of them
Deadlocked ==
    \E S \in SUBSET QThreads \ {{}} :
        \A t \in S :
            \E i \in InvokerIds :
                /\ invoker[i].caller = t
                /\ invoker[i].pc = "blocked"
                /\ ~invoker[i].done
                /\ invoker[i].thread \in S

\* C10: every invocation record is independent: at any time a record either
\* still awaits its execution in exactly one place (one posted event or one
\* timer) or its callback has run exactly once, every run of a callback used
\* the arguments bound at the construction of its own record, and while the
\* event loops keep running (no thread is blocked for ever) every callback
\* does run.
C10_IndependentRecords ==
    /\ [](\A i \in InvokerIds :
            /\ PostedCount(i) + TimerCount(i) + Len(invoker[i].calls) = 1
            /\ \A k \in DOMAIN invoker[i].calls :
                  invoker[i].calls[k].args = invoker[i].args)
    /\ <>[](Deadlocked \/ \A i \in InvokerIds : Len(invoker[i].calls) = 1)

\* two invokers with different arguments, constructed by different threads
\* with different policies, have both run
C10_Witness ==
    \E i, j \in InvokerIds :
        /\ invoker[i].caller # invoker[j].caller
        /\ invoker[i].ctype # invoker[j].ctype
        /\ invoker[i].args # invoker[j].args
        /\ Len(invoker[i].calls) = 1
        /\ Len(invoker[j].calls) = 1

\* C13: a MethodInvoker constructed with the Direct connection type has run
\* its callback exactly once with its own arguments on the constructing
\* thread by the time the construction step is over, whatever thread owns the
\* callback; its constructor never blocks and its call is never pending in a
\* posted-event queue or as a timer of any thread.
C13_DirectRunsOnCaller ==
    \A i \in InvokerIds :
        invoker[i].ctype = "Direct" =>
            /\ Len(invoker[i].calls) = 1
            /\ invoker[i].calls[1].thread = invoker[i].caller
            /\ invoker[i].calls[1].args = invoker[i].args
            /\ invoker[i].pc \in {"dispatched", "returned"}
            /\ PostedCount(i) = 0
            /\ TimerCount(i) = 0

\* a Direct invoker whose callback is owned by another thread than the
\* constructing one has run and its constructor has returned
C13_Witness ==
    \E i \in InvokerIds :
        /\ invoker[i].ctype = "Direct"
        /\ invoker[i].thread # invoker[i].caller
        /\ invoker[i].pc = "returned"
        /\ Len(invoker[i].calls) = 1

\* C17: a BlockingQueued MethodInvoker constructed on the thread its callback
\* is posted to never completes: in every state its constructor is blocked,
\* its semaphore is not released, its callback has not run and its call is
\* still pending in the queue of the blocked thread.
C17_SelfTargetBlocksForever ==
    \A i \in InvokerIds :
        (invoker[i].ctype = "BlockingQueued" /\ invoker[i].thread = invoker[i].caller) =>
            /\ invoker[i].pc = "blocked"
            /\ ~invoker[i].done
            /\ invoker[i].calls = <<>>
            /\ PostedCount(i) = 1

\* a thread is blocked in a BlockingQueued constructor that targets the
\* thread itself, behind a queued call posted to it earlier that is also still
\* pending, while the other thread has nothing left to do
C17_Witness ==
    \E i, j \in InvokerIds :
        /\ invoker[i].ctype = "BlockingQueued"
        /\ invoker[i].thread = invoker[i].caller
        /\ invoker[j].ctype = "Queued"
        /\ invoker[j].thread = invoker[i].caller
        /\ queue[invoker[i].caller] = <<MetaCall(j), MetaCall(i)>>
        /\ \A t \in QThreads \ {invoker[i].caller} : LoopDrained(t) /\ timers[t] = <<>>

\* the thread that constructed invoker i is blocked in the constructor of
\* another invoker
CallerBlockedElsewhere(i) ==
    \E j \in InvokerIds \ {i} :
        /\ invoker[j].caller = invoker[i].caller
        /\ invoker[j].pc = "blocked"

\* C18, as stated: every MethodInvoker that logged the old style API warning
\* (bare callable, policy Queued, BlockingQueued or IDLE_TASK) eventually has
\* run its callback exactly once, unless its constructing thread is blocked in
\* the constructor of another invoker.
C18_WarnedCallbackRuns ==
    \A i \in 1..MaxInvokers :
        (i \in InvokerIds /\ invoker[i].warned)
            ~> (i \in InvokerIds /\ (Len(invoker[i].calls) = 1 \/ CallerBlockedElsewhere(i)))

\* C18, amended: no Direct invoker logs the warning; an invoker that logged
\* it lives in its constructing thread and runs its callback at most once and
\* only on that thread; with Queued and IDLE_TASK the callback eventually has
\* run exactly once, unless the constructing thread is blocked in the
\* constructor of another invoker; with BlockingQueued the constructor blocks
\* forever and the callback never runs.
C18_WarnedQueuedOrIdleRuns ==
    /\ [](\A i \in InvokerIds :
            /\ invoker[i].ctype = "Direct" => ~invoker[i].warned
            /\ invoker[i].warned =>
                /\ invoker[i].thread = invoker[i].caller
                /\ Len(invoker[i].calls) <= 1
                /\ \A k \in DOMAIN invoker[i].calls :
                      invoker[i].calls[k].thread = invoker[i].caller
                /\ invoker[i].ctype = "BlockingQueued" =>
                      (invoker[i].pc = "blocked" /\ invoker[i].calls = <<>>))
    /\ <>[](\A i \in InvokerIds :
              (invoker[i].warned /\ invoker[i].ctype \in {"Queued", "IDLE_TASK"}) =>
                  (Len(invoker[i].calls) = 1 \/ CallerBlockedElsewhere(i)))

\* a Queued and an IDLE_TASK invoker that logged the warning have both run
\* on their constructing thread, and the constructors have returned
C18_Witness ==
    \E i, j \in InvokerIds :
        /\ invoker[i].warned /\ invoker[i].ctype = "Queued"
        /\ invoker[j].warned /\ invoker[j].ctype = "IDLE_TASK"
        /\ Len(invoker[i].calls) = 1 /\ invoker[i].calls[1].thread = invoker[i].caller
        /\ Len(invoker[j].calls) = 1 /\ invoker[j].calls[1].thread = invoker[j].caller
        /\ invoker[i].pc = "returned" /\ invoker[j].pc = "returned"

\* ------------------------------------------------------------------------
\* waitForSignal
\* ------------------------------------------------------------------------

\* the arguments the signal is emitted with
Payloads == {1, 2}

\* the callback argument: None, or a predicate over the signal's arguments
\* (given by the arguments it returns true for)
WaitCallbacks == {NoCallback} \cup [given : {TRUE}, accept : SUBSET Payloads]

\* the timeout argument: None or a number of seconds
Timeouts == {NoTimeout} \cup (0..MaxTimeout)

\* what waitForSignal does not touch
nonWait == <<bvars, timers, ivars>>

\* a posted QMetaCallEvent for _slot with the signal's arguments
SlotCall(p) == [kind |-> "slot", inv |-> None, args |-> p]

\* waitForSignal has exited: by return, by TimeoutError, by NexTInternalError
Exited == wpc \in {"returned", "timeout", "error"}

\* the slot accepts arguments p: there is no callback, or callback(*args) is true
Accepts(cb, p) == ~cb.given \/ p \in cb.accept

\* _slot: _sigArgs = args
SlotSigArgs(cb, p, old) == p

\* _slot: _received = True if there is no callback or if the callback
\* returns true
SlotReceived(cb, p, old) ==
    IF ~cb.given THEN TRUE
    ELSE IF p \in cb.accept THEN TRUE ELSE old

\* _slot(*args) is called
Slot(p) ==
    /\ sigArgs' = SlotSigArgs(callback, p, sigArgs)
    /\ received' = SlotReceived(callback, p, received)
    /\ whist' = [whist EXCEPT !.slotCalls = @ + 1,
                              !.accepted = IF @ = None /\ Accepts(callback, p)
                                           THEN p ELSE @]

\* a plausible slip: the slot stays connected
DisconnectMissing(c) == c

\* signal.disconnect(_slot)
Disconnect(c) == FALSE

\* a plausible slip: the comparison is the wrong way round
TimedOutInverted(elapsed, limit) == limit # NoTimeout /\ elapsed < limit

\* timeout is not None and time.perf_counter() - t0 > timeout
TimedOut(elapsed, limit) == limit # NoTimeout /\ elapsed > limit

\* waitForSignal(signal, callback, timeout) is entered: signal.connect(_slot,
\* Qt.QueuedConnection) succeeds or returns false (NexTInternalError)
Call(cb, limit, ok) ==
    /\ wpc = "idle"
    /\ callback' = cb
    /\ timeout' = limit
    /\ received' = FALSE
    /\ sigArgs' = None
    /\ connected' = ok
    /\ wpc' = IF ok THEN "t0" ELSE "error"
    /\ whist' = [whist EXCEPT !.entry = now]
    /\ UNCHANGED <<wthread, t0, now, pumpLeft, result, queue>>
    /\ UNCHANGED nonWait

\* t0 = time.perf_counter()
StartClock ==
    /\ wpc = "t0"
    /\ t0' = now
    /\ wpc' = "loop"
    /\ UNCHANGED <<wthread, callback, timeout, connected, received, sigArgs, now,
                   pumpLeft, result, whist, queue>>
    /\ UNCHANGED nonWait

\* while not _received:
LoopTest ==
    /\ wpc = "loop"
    /\ wpc' = IF ~received THEN "process" ELSE "finish"
    /\ UNCHANGED <<wthread, callback, timeout, connected, received, sigArgs, t0, now,
                   pumpLeft, result, whist, queue>>
    /\ UNCHANGED nonWait

\* a plausible slip: the loop polls the flag without processing events
PendingEventsIgnored(q) == 0

\* the events one call of processEvents() delivers: those that are posted to
\* the thread when it is entered
PendingEvents(q) == Len(q)

\* QCoreApplication.processEvents() is entered: it delivers the events that
\* are posted to the calling thread at this moment
ProcessEvents ==
    /\ wpc = "process"
    /\ pumpLeft' = PendingEvents(queue[wthread])
    /\ wpc' = "pump"
    /\ UNCHANGED <<wthread, callback, timeout, connected, received, sigArgs, t0, now,
                   result, whist, queue>>
    /\ UNCHANGED nonWait

\* processEvents() delivers the oldest posted event: _slot is called with the
\* arguments of the emission
PumpDeliver ==
    /\ wpc = "pump"
    /\ pumpLeft > 0
    /\ Head(queue[wthread]).kind = "slot"
    /\ Slot(Head(queue[wthread]).args)
    /\ queue' = [queue EXCEPT ![wthread] = Tail(@)]
    /\ pumpLeft' = pumpLeft - 1
    /\ UNCHANGED <<wthread, wpc, callback, timeout, connected, t0, now, result>>
    /\ UNCHANGED nonWait

\* processEvents() returns
PumpEnd ==
    /\ wpc = "pump"
    /\ pumpLeft = 0
    /\ wpc' = "check"
    /\ UNCHANGED <<wthread, callback, timeout, connected, received, sigArgs, t0, now,
                   pumpLeft, result, whist, queue>>
    /\ UNCHANGED nonWait

\* if timeout is not None and time.perf_counter() - t0 > timeout:
\*     signal.disconnect(_slot); raise TimeoutError()
TimeoutCheck ==
    /\ wpc = "check"
    /\ IF TimedOut(now - t0, timeout)
       THEN /\ connected' = Disconnect(connected)
            /\ whist' = [whist EXCEPT !.disconnects = @ + 1]
            /\ wpc' = "timeout"
       ELSE /\ wpc' = "loop"
            /\ UNCHANGED <<connected, whist>>
    /\ UNCHANGED <<wthread, callback, timeout, received, sigArgs, t0, now,
                   pumpLeft, result, queue>>
    /\ UNCHANGED nonWait

\* signal.disconnect(_slot); return _sigArgs
Finish ==
    /\ wpc = "finish"
    /\ connected' = Disconnect(connected)
    /\ whist' = [whist EXCEPT !.disconnects = @ + 1]
    /\ result' = sigArgs
    /\ wpc' = "returned"
    /\ UNCHANGED <<wthread, callback, timeout, received, sigArgs, t0, now,
                   pumpLeft, queue>>
    /\ UNCHANGED nonWait

\* time.perf_counter() advances during the call (until no comparison depends
\* on it any more)
Tick ==
    /\ wpc # "idle"
    /\ ~Exited
    /\ IF wpc = "t0" THEN now - whist.entry < MaxDelay
                     ELSE now - t0 <= MaxTimeout
    /\ now' = now + 1
    /\ UNCHANGED <<wthread, wpc, callback, timeout, connected, received, sigArgs, t0,
                   pumpLeft, result, whist, queue>>
    /\ UNCHANGED nonWait

\* the signal is emitted with arguments p: a queued connection posts the call
\* of every connected slot to the thread of its receiver (an emission before
\* waitForSignal is entered reaches no slot of the call)
Emit(p) ==
    /\ wpc # "idle"
    /\ whist.emittedInCall + whist.emittedAfter < MaxEmit
    /\ queue' = IF connected
                THEN [queue EXCEPT ![wthread] = PostEvent(@, SlotCall(p))]
                ELSE queue
    /\ whist' = IF Exited THEN [whist EXCEPT !.emittedAfter = @ + 1]
                          ELSE [whist EXCEPT !.emittedInCall = @ + 1]
    /\ UNCHANGED <<wthread, wpc, callback, timeout, connected, received, sigArgs, t0,
                   now, pumpLeft, result>>
    /\ UNCHANGED nonWait

\* after waitForSignal has exited, the event loop of the thread delivers a
\* call of _slot that was posted before the disconnect
LateDeliver ==
    /\ Exited
    /\ queue[wthread] # <<>>
    /\ Head(queue[wthread]).kind = "slot"
    /\ Slot(Head(queue[wthread]).args)
    /\ queue' = [queue EXCEPT ![wthread] = Tail(@)]
    /\ UNCHANGED <<wthread, wpc, callback, timeout, connected, t0, now, pumpLeft, result>>
    /\ UNCHANGED nonWait

\* ... or the posted call is dropped together with the receiver of the
\* disconnected slot
LateDiscard ==
    /\ Exited
    /\ ~connected
    /\ queue[wthread] # <<>>
    /\ Head(queue[wthread]).kind = "slot"
    /\ queue' = [queue EXCEPT ![wthread] = Tail(@)]
    /\ UNCHANGED wvars
    /\ UNCHANGED nonWait

\* one step of the thread inside waitForSignal
WaitStep ==
    \/ StartClock
    \/ LoopTest
    \/ ProcessEvents
    \/ PumpDeliver
    \/ PumpEnd
    \/ TimeoutCheck
    \/ Finish

WaitNext ==
    \/ \E cb \in WaitCallbacks, limit \in Timeouts, ok \in BOOLEAN : Call(cb, limit, ok)
    \/ StartClock
    \/ LoopTest
    \/ ProcessEvents
    \/ PumpDeliver
    \/ PumpEnd
    \/ TimeoutCheck
    \/ Finish
    \/ Tick
    \/ \E p \in Payloads : Emit(p)
    \/ LateDeliver
    \/ LateDiscard

InitWait == WaitInit /\ NoBarrier /\ NoInvoker

SpecWait == InitWait /\ [][WaitNext]_vars

\* the calling thread keeps running and the clock keeps advancing
SpecWaitFair == SpecWait /\ WF_vars(WaitStep) /\ WF_vars(Tick)

\* ------------------------------------------------------------------------
\* waitForSignal on a thread other threads post MethodInvoker calls to
\* ------------------------------------------------------------------------

\* the callback of the invokers posted to the waiting thread: the emit method
\* of the signal waited for, owned by the waiting thread
EmitCallback == [kind |-> "method", thread |-> wthread]

\* another thread constructs MethodInvoker(signal.emit, ct, p) with a queued
\* or blocking queued connection
PostEmitTask(t, ct, p) ==
    /\ t # wthread
    /\ ConstructQueued(t, EmitCallback, ct, p)

\* processEvents() delivers the oldest posted event, the call of an invoker:
\* callbackWrapper emits the signal with the bound arguments on the waiting
\* thread, and the queued connection of waitForSignal posts the call of _slot
\* to the same thread
PumpDeliverCall ==
    /\ wpc = "pump"
    /\ pumpLeft > 0
    /\ Head(queue[wthread]).kind = "metacall"
    /\ LET i == Head(queue[wthread]).inv IN
        /\ invoker' = ReleaseSemaphore(CallbackWrapper(invoker, i, wthread), i)
        /\ execOrder' = Append(execOrder, i)
        /\ queue' = [queue EXCEPT ![wthread] =
                        IF connected THEN PostEvent(Tail(@), SlotCall(invoker[i].args))
                                     ELSE Tail(@)]
    /\ whist' = [whist EXCEPT !.emittedInCall = @ + 1]
    /\ pumpLeft' = pumpLeft - 1
    /\ UNCHANGED <<wthread, wpc, callback, timeout, connected, received, sigArgs,
                   t0, now, result>>
    /\ UNCHANGED <<bvars, timers, postOrder>>

\* outside waitForSignal the event loop of the thread delivers the call of an
\* invoker; the signal it emits is connected to no slot
LoopDeliverCall ==
    /\ wpc = "idle" \/ Exited
    /\ DeliverPosted(wthread)

\* one step of the thread inside waitForSignal
WaitInvokeStep ==
    \/ WaitStep
    \/ PumpDeliverCall

\* the waits are those without timeout: nothing but an emission of the signal
\* ends them, and the only emissions are those of the posted invoker calls
WaitInvokeNext ==
    \/ \E cb \in WaitCallbacks, ok \in BOOLEAN : Call(cb, NoTimeout, ok)
    \/ StartClock
    \/ LoopTest
    \/ ProcessEvents
    \/ PumpDeliver
    \/ PumpDeliverCall
    \/ PumpEnd
    \/ TimeoutCheck
    \/ Finish
    \/ LateDeliver
    \/ LateDiscard
    \/ LoopDeliverCall
    \/ \E t \in QThreads, ct \in {"Queued", "BlockingQueued"}, p \in Payloads :
          PostEmitTask(t, ct, p)
    \/ \E i \in 1..MaxInvokers : Return(i)

SpecWaitInvoke == InitWait /\ [][WaitInvokeNext]_vars

\* the waiting thread keeps running, and a constructor that may return does
\* return
SpecWaitInvokeFair ==
    /\ SpecWaitInvoke
    /\ WF_vars(WaitInvokeStep)
    /\ \A i \in 1..MaxInvokers : WF_vars(Return(i))

\* waitForSignal is in progress and has no timeout
WaitingWithoutTimeout == wpc # "idle" /\ ~Exited /\ timeout = NoTimeout

\* the call of an invoker is pending in the queue of the waiting thread
TaskPending(i) ==
    /\ i \in InvokerIds
    /\ \E k \in DOMAIN queue[wthread] : queue[wthread][k] = MetaCall(i)

\* ------------------------------------------------------------------------
\* Properties of waitForSignal
\* ------------------------------------------------------------------------

\* C5: waitForSignal with a predicate callback returns the arguments of the
\* event on which the predicate first evaluated true, whatever events are
\* delivered before and after it.
C5_ReturnsFirstAccepted ==
    (wpc = "returned" /\ callback.given) => result = whist.accepted

\* C6: after every exit of waitForSignal the slot is not connected; the
\* return and the TimeoutError paths have disconnected exactly once, the
\* NexTInternalError path (connect failed) never.
C6_DisconnectedOnEveryExit ==
    /\ wpc \in {"returned", "timeout"} => ~connected /\ whist.disconnects = 1
    /\ wpc = "error" => ~connected /\ whist.disconnects = 0
    /\ ~Exited => whist.disconnects = 0

\* the call has timed out after its predicate rejected an event
C6_Witness ==
    /\ wpc = "timeout"
    /\ callback.given
    /\ whist.slotCalls >= 1
    /\ whist.disconnects = 1

\* C7: waitForSignal with a timeout on a signal that is not emitted during the
\* call eventually raises TimeoutError, never before the timeout has elapsed
\* since the entry of the call, and leaves the slot disconnected: an emission
\* after the timeout does not call the slot (nor the predicate).
C7_TimeoutOnSilentSignal ==
    /\ [](wpc = "timeout" => ~connected /\ now - whist.entry >= timeout)
    /\ (wpc = "loop" /\ timeout # NoTimeout)
          ~> (wpc = "timeout" \/ whist.emittedInCall > 0)
    /\ [][(wpc = "timeout" /\ whist.emittedInCall = 0)
             => whist'.slotCalls = whist.slotCalls]_vars

\* the call has timed out with the largest timeout on a signal that was
\* emitted only after the timeout, and the slot has never been called
C7_Witness ==
    /\ wpc = "timeout"
    /\ timeout = MaxTimeout
    /\ whist.emittedInCall = 0
    /\ whist.emittedAfter > 0
    /\ whist.slotCalls = 0

\* C19: while waitForSignal waits, the calls posted to the waiting thread
\* keep being executed: a wait without timeout does not go on with a posted
\* invoker call left pending for ever; a wait without timeout returns once a
\* posted invoker call emits the signal with arguments the wait accepts; and
\* a wait returns only after such a call has run on the waiting thread.
C19_QueuedWorkRunsDuringWait ==
    /\ <>[](WaitingWithoutTimeout => \A i \in InvokerIds : ~TaskPending(i))
    /\ (WaitingWithoutTimeout
          /\ \E i \in InvokerIds :
                TaskPending(i) /\ Accepts(callback, invoker[i].args))
          ~> (wpc = "returned")
    /\ [](wpc = "returned" =>
            \E i \in InvokerIds :
                /\ Len(invoker[i].calls) = 1
                /\ invoker[i].calls[1].thread = wthread
                /\ Accepts(callback, invoker[i].args))

\* a wait without timeout and with a predicate has returned the arguments
\* emitted by the call of a queued invoker another thread constructed, after
\* the call of an invoker whose arguments the predicate rejects had run too
C19_Witness ==
    /\ wpc = "returned"
    /\ timeout = NoTimeout
    /\ callback.given
    /\ \E i, j \in InvokerIds :
        /\ invoker[i].ctype = "Queued"
        /\ invoker[i].caller # wthread
        /\ invoker[i].calls = <<[thread |-> wthread, args |-> result]>>
        /\ ~Accepts(callback, invoker[j].args)
        /\ Len(invoker[j].calls) = 1

\* C20: waitForSignal raises TimeoutError only if no event satisfying the
\* wait was delivered to its slot during the call: the step that raises is
\* taken only while _received is false.
C20_TimeoutOnlyIfNothingAccepted ==
    [][(wpc # "timeout" /\ wpc' = "timeout") => ~received]_vars

====
